---- MODULE Spec2Model ----
(***************************************************************************)
(* Model of the nsoc macros (src/src/lib.rs): write_file!, write_const!.   *)
(*                                                                         *)
(* A build script is a sequence of macro invocations executed by a single  *)
(* thread.  The state is what one run of the build script can observe:     *)
(* the environment the script was compiled under, the lines printed on     *)
(* standard output, the panic message, the files of OUT_DIR and what was   *)
(* written through each file handle.                                       *)
(*                                                                         *)
(* Text is modelled as a sequence of one-character strings so that         *)
(* parsing (str::parse) and formatting (Display) are computed, not assumed.*)
(***************************************************************************)
EXTENDS Integers, Sequences, FiniteSets, TLC

\* ------------------------------------------------------------------ bounds
\* Number of write_const! invocations of one build script.
MaxCalls == 2

\* ------------------------------------------------------------------ inputs
\* Constant names ($const_name); the environment variable has the same name.
Names == {"DEFAULT_WIDTH", "DEFAULT_HEIGHT"}

\* Declared types ($const_type).
Types == {"usize", "u8", "bool"}

\* The file handle expression handed to write_const! ($filehandle).
FileHandles == {"f"}

\* The recognised modifier literals, and "" for none (lines 88-94, 108).
Modifiers == {"", "nodoc", "cc", "priv", "pcrate", "pself", "psuper"}

\* Comment literals ($comment).
Comments == {"", "/// Default frame width"}

\* Default values a caller supplies for a type ($default).
Defaults(t) ==
  CASE t = "usize" -> {150}
    [] t = "u8" -> {50}
    [] t = "bool" -> {FALSE}

\* Option<&str>: None is the empty tuple, Some(s) the one-element tuple.
None == <<>>
Some(s) == <<s>>

\* Strings an environment variable can hold.
EnvStrings ==
  { <<"2", "0", "0">>,        \* a usize and a u8, differs from every default
    <<"0", "0", "7">>,        \* leading zeros: parses to 7
    <<"3", "0", "0">>,        \* fits usize, overflows u8
    <<"a", "b", "c">>,        \* no type parses it
    <<"t", "r", "u", "e">>,   \* a bool only
    <<>> }                    \* set but empty

EnvVals == {None} \cup { Some(s) : s \in EnvStrings }

\* File names given to write_file!.
FileNames == { <<"c">>, <<"c", ".", "r", "s">> }

OUT_DIR == <<"o", "u", "t">>
CARGO_PKG_NAME == <<"p", "k", "g">>

VARIABLES
  env,        \* the environment the build script is compiled under
  status,     \* "running" | "panicked" | "compile_error"
  call,       \* arguments of the write_const! invocation run last
  ncalls,     \* number of write_const! invocations run
  stdout,     \* the lines printed on standard output
  panic_msg,  \* fragments of the panic message, <<>> when none
  resolved,   \* names of the constants resolved so far, in order
  file_call,  \* the write_file! invocation: <<>>, <<"default">>, <<"named", n>>
  out_path,   \* the destination path named by the write_file! expansion
  files,      \* paths of the files existing in OUT_DIR
  written     \* what was written through each file handle

vars == <<env, status, call, ncalls, stdout, panic_msg, resolved,
          file_call, out_path, files, written>>

\* ---------------------------------------------------------- text helpers
Digits == <<"0", "1", "2", "3", "4", "5", "6", "7", "8", "9">>

IsDigit(c) == \E i \in 1..10 : Digits[i] = c

\* char::to_digit(10) of a digit character.
DigitVal(c) == (CHOOSE i \in 1..10 : Digits[i] = c) - 1

StrTrue == <<"t", "r", "u", "e">>
StrFalse == <<"f", "a", "l", "s", "e">>

\* u8::MAX.
U8_MAX == 255

\* Stand-in for usize::MAX, which is beyond the integers of the model checker;
\* no string of EnvStrings comes near either.
UsizeCap == 1000000

\* Largest value of an integer type.
MaxOf(t) == IF t = "u8" THEN U8_MAX ELSE UsizeCap

\* ----------------------------------------------- str::parse::<$const_type>
Ok(v) == [ok |-> TRUE, value |-> v, err |-> "none"]
Err(e) == [ok |-> FALSE, value |-> 0, err |-> e]

\* The digit loop of the unsigned from_str: for each character, to_digit
\* (InvalidDigit), checked_mul by 10 and checked_add (PosOverflow).
RECURSIVE ParseDigits(_, _, _)
ParseDigits(s, acc, t) ==
  IF s = <<>> THEN Ok(acc)
  ELSE IF ~IsDigit(Head(s)) THEN Err("InvalidDigit")
  ELSE IF acc * 10 > MaxOf(t) THEN Err("PosOverflow")
  ELSE IF acc * 10 + DigitVal(Head(s)) > MaxOf(t) THEN Err("PosOverflow")
  ELSE ParseDigits(Tail(s), acc * 10 + DigitVal(Head(s)), t)

\* <usize|u8 as FromStr>::from_str: empty is an error, a lone sign is an
\* error, a leading "+" is skipped, a leading "-" is not a digit.
ParseUnsigned(s, t) ==
  IF s = <<>> THEN Err("Empty")
  ELSE IF Len(s) = 1 /\ Head(s) \in {"+", "-"} THEN Err("InvalidDigit")
  ELSE IF Head(s) = "+" THEN ParseDigits(Tail(s), 0, t)
  ELSE ParseDigits(s, 0, t)

\* <bool as FromStr>::from_str: exactly "true" or "false".
ParseBool(s) ==
  IF s = StrTrue THEN Ok(TRUE)
  ELSE IF s = StrFalse THEN Ok(FALSE)
  ELSE Err("ParseBool")

\* env_var.parse::<$const_type>()   (line 115)
Parse(s, t) == IF t = "bool" THEN ParseBool(s) ELSE ParseUnsigned(s, t)

\* ------------------------------------------------- Display of a value "{}"
RECURSIVE NatToString(_)
NatToString(n) ==
  IF n < 10 THEN <<Digits[n + 1]>>
  ELSE NatToString(n \div 10) \o <<Digits[(n % 10) + 1]>>

\* The text "{}" renders for const_value (line 123).
Display(t, v) ==
  IF t = "bool" THEN (IF v THEN StrTrue ELSE StrFalse) ELSE NatToString(v)

\* Display of the parse error, the only argument of panic!("{}", err)
\* (the bool message quotes the two words with backquotes).
ErrText(e) ==
  CASE e = "Empty" -> "cannot parse integer from empty string"
    [] e = "InvalidDigit" -> "invalid digit found in string"
    [] e = "PosOverflow" -> "number too large to fit in target type"
    [] e = "ParseBool" -> "provided string was not 'true' or 'false'"

\* ------------------------------------------ the match of lines 113 to 121
\* option_env!(stringify!($const_name)): the variable named as the constant.
OptionEnv(e, name) == e[name]

\* Variant: an unset variable yields the type's zero value, not $default.
ResolveZeroWhenUnset(env_var, t, default) ==
  IF env_var = None THEN Ok(IF t = "bool" THEN FALSE ELSE 0)
  ELSE Parse(env_var[1], t)

\* Variant: the override is validated but the default is what is used.
ResolveDefaultWins(env_var, t, default) ==
  IF env_var = None THEN Ok(default)
  ELSE IF Parse(env_var[1], t).ok THEN Ok(default)
  ELSE Parse(env_var[1], t)

\* Variant: an override that does not parse falls back to the default.
ResolveFallbackOnErr(env_var, t, default) ==
  IF env_var = None THEN Ok(default)
  ELSE IF Parse(env_var[1], t).ok THEN Parse(env_var[1], t)
  ELSE Ok(default)

\* Some(env_var) => parse, Ok(value) => value, Err(err) => panic;
\* None => $default.
Resolve(env_var, t, default) ==
  IF env_var = None THEN Ok(default)
  ELSE Parse(env_var[1], t)

\* panic!("{}", err)   (line 117): the message is the error's text alone.
PanicMessage(name, e) == <<ErrText(e)>>

\* ------------------------------------------------ the println! of line 123
\* "{}\n pub const {}: {} = {};\n" and println's own newline: three lines.
\* The visibility is the literal "pub" of the format string.
Visibility(modifiers) == "pub"

\* The first "{}" is $comment, whatever the modifiers.
CommentText(modifiers, comment) == comment

DeclLines(modifiers, name, t, value, comment) ==
  << [kind |-> "comment", text |-> CommentText(modifiers, comment)],
     [kind |-> "decl", vis |-> Visibility(modifiers), name |-> name,
      type |-> t, value |-> Display(t, value)],
     [kind |-> "blank"] >>

\* Variant: the hint names a fixed variable, not the constant's.
RerunLineFixedVar(name) == [kind |-> "rerun", var |-> "OUT_DIR"]

\* println!("cargo:rerun-if-env-changed={}", stringify!($const_name))
RerunLine(name) == [kind |-> "rerun", var |-> name]

\* ------------------------------------------------------------- write_file!
\* PathBuf::from(OUT_DIR).join(format!("{}.rs", $filename))   (line 70)
OutPath(filename) == OUT_DIR \o <<"/">> \o filename \o <<".", "r", "s">>

\* ------------------------------------------------------------------- state
NoCall ==
  [form |-> "none", modifiers |-> "", filehandle |-> "f", name |-> "",
   type |-> "usize", default |-> 0, comment |-> ""]

Init ==
  /\ env \in [Names -> EnvVals]
  /\ status = "running"
  /\ call = NoCall
  /\ ncalls = 0
  /\ stdout = <<>>
  /\ panic_msg = <<>>
  /\ resolved = <<>>
  /\ file_call = <<>>
  /\ out_path = <<>>
  /\ files = {}
  /\ written = [h \in FileHandles |-> <<>>]

\* ----------------------------------------------------------------- actions
\* A statement of the build script runs only while the script is running:
\* panic! (line 117) ends the process, a rejected script never starts.
\* Variant: the script carries on after a failure.
AliveAlways(st) == TRUE

Alive(st) == st = "running"

\* The full arm of write_const! (lines 112-127).  The value is resolved
\* first; a parse error panics before anything is printed.  Both println!
\* go to standard output; $filehandle and $modifiers are not used.
WriteConstFull(form, modifiers, fh, name, t, default, comment) ==
  /\ Alive(status)
  /\ ncalls < MaxCalls
  /\ ncalls' = ncalls + 1
  /\ call' = [form |-> form, modifiers |-> modifiers, filehandle |-> fh,
              name |-> name, type |-> t, default |-> default,
              comment |-> comment]
  /\ LET r == Resolve(OptionEnv(env, name), t, default) IN
       IF r.ok
       THEN /\ stdout' = stdout
                  \o DeclLines(modifiers, name, t, r.value, comment)
                  \o <<RerunLine(name)>>
            /\ resolved' = Append(resolved, name)
            /\ UNCHANGED <<status, panic_msg>>
       ELSE /\ status' = "panicked"
            /\ panic_msg' = PanicMessage(name, r.err)
            /\ UNCHANGED <<stdout, resolved>>
  /\ UNCHANGED <<env, file_call, out_path, files, written>>

\* write_const!(f, NAME, ty, default): "nodoc" and an empty comment
\* (lines 102-104).
WriteConst4(fh, n, t, d) ==
  WriteConstFull("4", "nodoc", fh, n, t, d, "")

\* write_const!(f, NAME, ty, default, "comment"): no modifier
\* (lines 107-109).
WriteConst5(fh, n, t, d, c) ==
  WriteConstFull("5", "", fh, n, t, d, c)

\* write_const!("modifier", f, NAME, ty, default, "comment")
\* (lines 112-127).
WriteConst6(m, fh, n, t, d, c) ==
  WriteConstFull("6", m, fh, n, t, d, c)

\* write_file!{ f, { ... } } (lines 63-65) expands to create_const_file!,
\* a macro the crate does not define: the build script is rejected by the
\* compiler and nothing of it runs.
WriteFileDefault ==
  /\ status = "running"
  /\ ncalls = 0
  /\ file_call' = <<"default">>
  /\ status' = "compile_error"
  /\ UNCHANGED <<env, call, ncalls, stdout, panic_msg, resolved, out_path,
                 files, written>>

\* write_file!{ "name", f, { ... } } (lines 68-77): the destination is
\* OUT_DIR/name.rs, ".rs" always appended; File::create(..).expect(..) is
\* given two arguments, which the compiler rejects, so no file is created
\* and the code block never runs.
WriteFileNamed(filename) ==
  /\ status = "running"
  /\ ncalls = 0
  /\ file_call' = <<"named", filename>>
  /\ out_path' = OutPath(filename)
  /\ status' = "compile_error"
  /\ UNCHANGED <<env, call, ncalls, stdout, panic_msg, resolved, files,
                 written>>

Next ==
  \/ \E fh \in FileHandles, n \in Names, t \in Types :
       \E d \in Defaults(t) : WriteConst4(fh, n, t, d)
  \/ \E fh \in FileHandles, n \in Names, t \in Types, c \in Comments :
       \E d \in Defaults(t) : WriteConst5(fh, n, t, d, c)
  \/ \E m \in Modifiers, fh \in FileHandles, n \in Names, t \in Types,
        c \in Comments :
       \E d \in Defaults(t) : WriteConst6(m, fh, n, t, d, c)
  \/ WriteFileDefault
  \/ \E filename \in FileNames : WriteFileNamed(filename)

Spec == Init /\ [][Next]_vars

\* ================================================================= claims
\* The last invocation was a write_const! that ran to its end.
Succeeded == ncalls > 0 /\ status = "running"

\* The four lines the last successful invocation printed.
LastComment == stdout[Len(stdout) - 3]
LastDecl == stdout[Len(stdout) - 2]
LastRerun == stdout[Len(stdout)]

\* The environment variable of invocation c is unset / set / set and parsed.
Unset(c) == env[c.name] = None
IsSet(c) == env[c.name] # None
Raw(c) == env[c.name][1]

\* What a valid override must render as, written out by hand for the
\* strings of EnvStrings: <<string, type, rendered value>>.
ValidOverrides ==
  { << <<"2", "0", "0">>, "usize", <<"2", "0", "0">> >>,
    << <<"2", "0", "0">>, "u8", <<"2", "0", "0">> >>,
    << <<"0", "0", "7">>, "usize", <<"7">> >>,
    << <<"0", "0", "7">>, "u8", <<"7">> >>,
    << <<"3", "0", "0">>, "usize", <<"3", "0", "0">> >>,
    << <<"t", "r", "u", "e">>, "bool", <<"t", "r", "u", "e">> >> }

ParsesAs(str, t) == \E v \in ValidOverrides : v[1] = str /\ v[2] = t

RenderedOverride(str, t) ==
  (CHOOSE v \in ValidOverrides : v[1] = str /\ v[2] = t)[3]

\* The default of each type as the caller wrote it.
DefaultText(t) ==
  CASE t = "usize" -> <<"1", "5", "0">>
    [] t = "u8" -> <<"5", "0">>
    [] t = "bool" -> <<"f", "a", "l", "s", "e">>

\* C1: when the environment variable named as the constant is unset, the
\* invocation succeeds and the value of the declaration it prints is the
\* supplied default, whatever the type and the modifiers.
C1_DefaultWhenUnset ==
  (ncalls > 0 /\ Unset(call)) =>
    /\ status = "running"
    /\ Len(stdout) >= 4
    /\ LastDecl.kind = "decl"
    /\ LastDecl.name = call.name
    /\ LastDecl.type = call.type
    /\ LastDecl.value = DefaultText(call.type)
    /\ LastDecl.value = Display(call.type, call.default)

C1_Witness ==
  /\ ncalls > 0
  /\ Unset(call)
  /\ call.modifiers = "priv"
  /\ call.type = "usize"
  /\ LastDecl.value = <<"1", "5", "0">>

\* C2: when the environment variable is set to a string that parses as the
\* declared type, the value of the declaration is the parsed override (007
\* renders as 7) and not the default.
C2_OverrideWins ==
  (ncalls > 0 /\ IsSet(call) /\ ParsesAs(Raw(call), call.type)) =>
    /\ status = "running"
    /\ Len(stdout) >= 4
    /\ LastDecl.kind = "decl"
    /\ LastDecl.name = call.name
    /\ LastDecl.value = RenderedOverride(Raw(call), call.type)
    /\ LastDecl.value # DefaultText(call.type)

C2_Witness ==
  /\ ncalls > 0
  /\ IsSet(call)
  /\ Raw(call) = <<"0", "0", "7">>
  /\ call.type = "usize"
  /\ status = "running"
  /\ LastDecl.value = <<"7">>

\* C3: an invocation whose environment variable is set to a string that
\* does not parse as the declared type fails and prints nothing: standard
\* output, the files and what was written through the handles are as before.
C3_NothingEmittedOnBadOverride ==
  [][ (ncalls' = ncalls + 1 /\ env[call'.name] # None
        /\ ~ParsesAs(env[call'.name][1], call'.type))
      => /\ status' = "panicked"
         /\ stdout' = stdout
         /\ resolved' = resolved
         /\ files' = files
         /\ written' = written ]_vars

C3_Witness ==
  /\ ncalls = 2
  /\ IsSet(call)
  /\ Raw(call) = <<"3", "0", "0">>
  /\ call.type = "u8"
  /\ call.comment # ""
  /\ status = "panicked"
  /\ Len(stdout) = 4

\* C4 (as claimed): the visibility of the declaration follows the modifier:
\* "priv" private, "pcrate" pub (crate), "pself" pub (self), "psuper"
\* pub (super), anything else pub.
ClaimedVisibility(m) ==
  CASE m = "priv" -> ""
    [] m = "pcrate" -> "pub (crate)"
    [] m = "pself" -> "pub (self)"
    [] m = "psuper" -> "pub (super)"
    [] OTHER -> "pub"

C4_VisibilityFollowsModifier ==
  Succeeded => LastDecl.vis = ClaimedVisibility(call.modifiers)

\* C5 (as claimed): when an override fails to parse, the panic message
\* holds the name of the constant and the text of the parse error.
C5_MessageNamesConstant ==
  (ncalls > 0 /\ status = "panicked") =>
    /\ \E i \in 1..Len(panic_msg) : panic_msg[i] = call.name
    /\ \E i \in 1..Len(panic_msg) :
         panic_msg[i] = ErrText(Parse(Raw(call), call.type).err)

\* The names of the declarations among some lines, in order.
RECURSIVE DeclNames(_)
DeclNames(lines) ==
  IF lines = <<>> THEN <<>>
  ELSE IF Head(lines).kind = "decl"
       THEN <<Head(lines).name>> \o DeclNames(Tail(lines))
       ELSE DeclNames(Tail(lines))

\* C6 (as claimed): the declarations of the resolved constants, one each
\* and in invocation order, are what was written through the file handle
\* given to write_const!, and they are nowhere else.
C6_DeclarationsGoToTheFile ==
  /\ \A h \in FileHandles : DeclNames(written[h]) = resolved
  /\ DeclNames(stdout) = <<>>

\* C7: every invocation that resolves its constant prints exactly one
\* rerun-if-env-changed hint, as its last line, naming the constant, the
\* variable that was looked up; a failed invocation prints none.
C7_OneRerunHintPerResolution ==
  /\ Len(stdout) = 4 * Len(resolved)
  /\ \A i \in 1..Len(stdout) :
       IF i % 4 = 0
       THEN stdout[i] = [kind |-> "rerun", var |-> resolved[i \div 4]]
       ELSE stdout[i].kind # "rerun"
  /\ Succeeded => (LastRerun.kind = "rerun" /\ LastRerun.var = call.name)

C7_Witness ==
  /\ ncalls = 2
  /\ Succeeded
  /\ IsSet(call)
  /\ resolved = <<"DEFAULT_HEIGHT", "DEFAULT_WIDTH">>
  /\ LastRerun.var = "DEFAULT_WIDTH"
  /\ stdout[4].var = "DEFAULT_HEIGHT"

\* Does path p end in the four characters of ".rs" exactly once?
EndsWithRs(p) ==
  Len(p) >= 3 /\ SubSeq(p, Len(p) - 2, Len(p)) = <<".", "r", "s">>

\* The file name C8 claims for a write_file! invocation.
ClaimedFileName(fc) ==
  IF fc[1] = "default"
  THEN CARGO_PKG_NAME \o <<"_", "n", "s", "d", "c", "s", ".", "r", "s">>
  ELSE IF EndsWithRs(fc[2]) THEN fc[2]
  ELSE fc[2] \o <<".", "r", "s">>

\* C8 (as claimed): write_file! creates the file OUT_DIR/<name>, where
\* <name> is {CARGO_PKG_NAME}_nsdcs.rs without a file name, and the given
\* file name with ".rs" appended only when it does not end in it already.
C8_FileNameHasOneSuffix ==
  file_call # <<>> =>
    /\ out_path = OUT_DIR \o <<"/">> \o ClaimedFileName(file_call)
    /\ out_path \in files

\* C9 (as claimed): with "nodoc", and for the call without a comment, no
\* comment text precedes the declaration; otherwise the supplied comment is
\* printed once, right before its own declaration.
ClaimedComment(c) ==
  IF c.modifiers = "nodoc" \/ c.form = "4" THEN "" ELSE c.comment

C9_CommentFollowsModifier ==
  Succeeded =>
    /\ LastComment.kind = "comment"
    /\ LastComment.text = ClaimedComment(call)
    /\ LastDecl.kind = "decl"
    /\ LastDecl.name = call.name

\* C10: a failure is terminal.  The invocation whose override does not
\* parse ends the script without falling back to the default, and once the
\* script has ended (a panic, or a rejected write_file!) no later constant
\* is resolved or printed and the output printed before stays as it was.
C10_FailureIsTerminal ==
  [][ /\ (ncalls' = ncalls + 1 /\ env[call'.name] # None
           /\ ~ParsesAs(env[call'.name][1], call'.type))
         => (status' = "panicked" /\ resolved' = resolved
             /\ stdout' = stdout)
      /\ status # "running"
         => (/\ status' = status
             /\ stdout' = stdout
             /\ resolved' = resolved
             /\ ncalls' = ncalls
             /\ files' = files
             /\ written' = written) ]_vars

\* The script has panicked on its first constant, with invocations still
\* to come, and nothing was resolved.
C10_Witness ==
  /\ status = "panicked"
  /\ ncalls = 1
  /\ ncalls < MaxCalls
  /\ IsSet(call)
  /\ Raw(call) = <<"a", "b", "c">>
  /\ resolved = <<>>

====
